---- MODULE Spec2Model ----
(***************************************************************************)
(* Wave Function Collapse tilemap generator (wfc/tilemap.py, wfc/cell.py,  *)
(* wfc/tile.py, wfc/util.py): the adjacency compiler, the cells, the       *)
(* observe / propagate / backtrack engine and the Tk driver that steps it. *)
(***************************************************************************)
EXTENDS Integers, Sequences, FiniteSets, TLC

VARIABLES
    tiles,          \* TileMap.tiles: the catalog, a set of Tile objects
    width,          \* TileMap.width
    height,         \* TileMap.height
    rules,          \* TileMap.rules: tile id -> direction -> set of Tile
    cells,          \* TileMap.cells: position -> Cell.options
    gen,            \* which init_cells call built the current Cell objects
    stack,          \* TileMap.stack: list of Cell objects (current ones)
    history,        \* TileMap.history: dict keyed by Cell object
    contradictions, \* TileMap.contradictions
    pc,             \* where the driver (or the compiler run) stands
    drawn,          \* the cells the last draw(cells) call of update redrew
    last,           \* the call that produced the current state, and how it ended
    twin            \* a second TileMap built from the same arguments (SpecPair)

vars == <<tiles, width, height, rules, cells, gen, stack, history,
          contradictions, pc, drawn, last, twin>>

----------------------------------------------------------------------------
(* wfc/constants.py is not part of the sources: the direction table is the *)
(* one the callers assume (edges are listed in NESW order, tileset.py:84,  *)
(* and the opposite of direction idx is idx + 2, tilemap.py:24).           *)

DIRECTION_NAMES == <<"north", "east", "south", "west">>

DIRECTIONS ==
    [north |-> <<0, -1>>, east |-> <<1, 0>>, south |-> <<0, 1>>, west |-> <<-1, 0>>]

\* Python's s[::-1]
Reverse(s) == [i \in 1..Len(s) |-> s[Len(s) + 1 - i]]

\* Tile._init_edges with the check of the first two and of the last two
\* lengths only.
_init_edges_raises_pairwise(north, east, south, west) ==
    IF ~(Len(north) = Len(east) /\ Len(south) = Len(west))
    THEN "ValueError" ELSE "none"

\* Tile._init_edges, tile.py:53-54: the exception it leaves with ("none" when
\* it returns).  The chained == compares each length with the next.
_init_edges_raises(north, east, south, west) ==
    IF ~(Len(north) = Len(east) /\ Len(east) = Len(south) /\ Len(south) = Len(west))
    THEN "ValueError" ELSE "none"

\* Tile._init_edges, tile.py:56: the dictionary it returns.
_init_edges(north, east, south, west) ==
    [north |-> north, east |-> east, south |-> south, west |-> west]

\* Tile.__init__: a tile is its id and its four edge strings.
Tile(id, north, east, south, west) ==
    [id |-> id, edges |-> _init_edges(north, east, south, west)]

\* A direction is passed as (idx, name), idx counted from 0 as enumerate does.
compatible(tile_a, tile_b, direction) ==
    LET direction_a == direction[2]
        direction_b == DIRECTION_NAMES[((direction[1] + 2) % Len(DIRECTION_NAMES)) + 1]
        edge_a == tile_a.edges[direction_a]
        edge_b == Reverse(tile_b.edges[direction_b])
    IN  edge_a = edge_b

\* TileMap.build_rules: one entry per tile id; every tile of that id adds to it.
build_rules(ts) ==
    [i \in {t.id : t \in ts} |->
        [d \in {DIRECTION_NAMES[k] : k \in 1..Len(DIRECTION_NAMES)} |->
            {tile \in ts :
                \E _tile \in ts, idx \in 0..(Len(DIRECTION_NAMES) - 1) :
                    /\ _tile.id = i
                    /\ DIRECTION_NAMES[idx + 1] = d
                    /\ compatible(_tile, tile, <<idx, d>>)}]]

----------------------------------------------------------------------------
(* Cell (wfc/cell.py).  A Cell object is named by the init_cells call that *)
(* built it (gen) and its position <<x, y>>; its options are cells[pos].   *)

entropy(options) == Cardinality(options)

\* Cell.collapsed without the None case: an empty cell reads as False.
collapsed_never_none(options) ==
    IF entropy(options) = 1 THEN "True" ELSE "False"

\* Cell.collapsed: None / True / False, as the strings "None", "True", "False".
collapsed(options) ==
    IF entropy(options) = 0 THEN "None"
    ELSE IF entropy(options) = 1 THEN "True" ELSE "False"

\* Python truth value of what Cell.collapsed returns (None and False are falsy).
Truthy(v) == v = "True"

\* Cell.get_tile: the single option of a collapsed cell, else None.
get_tile(options) ==
    IF Truthy(collapsed(options)) THEN CHOOSE t \in options : TRUE ELSE "None"

\* An Optional[Set[Tile]] argument: <<>> is None, <<S>> is the set S.
\* `options or self.options`: None and the empty set are both falsy.
OptionsOr(options, self_options) ==
    IF options = <<>> THEN self_options
    ELSE IF options[1] = {} THEN self_options ELSE options[1]

\* random().choice(seq): raises IndexError on an empty sequence; otherwise the
\* element at an index fixed by the seed, in a tuple whose order is the set's
\* iteration order, which is not fixed: any element can come out.
choice(seq) == seq

\* Cell.collapse drawing from the whole catalog when no override is given,
\* instead of from the cell's own options.
collapse_from_catalog(self_options, options) ==
    {{t} : t \in choice(OptionsOr(options, tiles))}

\* Cell.collapse taking the drawn tile out of the options instead of keeping
\* only it.
collapse_discard(self_options, options) ==
    {OptionsOr(options, self_options) \ {t} : t \in choice(OptionsOr(options, self_options))}

\* Cell.collapse: the option sets the cell can hold afterwards; none when
\* random().choice raises.
collapse(self_options, options) ==
    {{t} : t \in choice(OptionsOr(options, self_options))}

\* The exception Cell.collapse leaves with ("none" when it returns).
collapse_raises(self_options, options) ==
    IF OptionsOr(options, self_options) = {} THEN "IndexError" ELSE "none"

----------------------------------------------------------------------------
(* TileMap (wfc/tilemap.py).  The engine operators work on a record e of   *)
(* the mutable fields: cells, gen, stack, history, contradictions.         *)

Coords == (0..(width - 1)) \X (0..(height - 1))

Put(f, k, v) == [x \in (DOMAIN f) \cup {k} |-> IF x = k THEN v ELSE f[x]]

Drop(f, k) == [x \in (DOMAIN f) \ {k} |-> f[x]]

\* init_cells giving every cell, besides the catalog, a placeholder tile that
\* is in no catalog.
new_cells_placeholder(w, h, ts) ==
    [p \in (0..(w - 1)) \X (0..(h - 1)) |->
        ts \cup {[id |-> -1, edges |-> [d \in {"north", "east", "south", "west"} |-> <<>>]]}]

\* tilemap.py:47-50: every cell starts with the whole catalog.
new_cells(w, h, ts) == [p \in (0..(w - 1)) \X (0..(h - 1)) |-> ts]

\* TileMap.init_cells: fresh Cell objects holding the whole catalog; it also
\* empties the stack.  The history dict is left as it is.
init_cells(e) ==
    [e EXCEPT !.cells = new_cells(width, height, tiles),
              !.gen = e.gen + 1,
              !.stack = <<>>]

Min(S) == CHOOSE m \in S : \A k \in S : m <= k

\* The pool taken from the cells with more than one option only.
_get_cells_with_minimum_entropy_open(cs) ==
    LET open_cells == {p \in DOMAIN cs : entropy(cs[p]) > 1}
    IN  IF open_cells = {} THEN {}
        ELSE {p \in open_cells :
                 entropy(cs[p]) = Min({entropy(cs[q]) : q \in open_cells})}

\* `not cell.collapsed` also holds of a cell with no option left (None).
_get_cells_with_minimum_entropy(cs) ==
    LET uncollapsed_cells == {p \in DOMAIN cs : ~Truthy(collapsed(cs[p]))}
        min_entropy == Min({entropy(cs[p]) : p \in uncollapsed_cells})
    IN  IF uncollapsed_cells = {} THEN {}
        ELSE {p \in uncollapsed_cells : entropy(cs[p]) = min_entropy}

\* For every offset both cells[y][(x+dx) % w] and cells[(y+dy) % h][x] are added.
_get_neighbors(p) ==
    UNION {{<<(p[1] + DIRECTIONS[DIRECTION_NAMES[k]][1]) % width, p[2]>>,
            <<p[1], (p[2] + DIRECTIONS[DIRECTION_NAMES[k]][2]) % height>>} :
           k \in 1..Len(DIRECTION_NAMES)}

_get_uncollapsed_neighbors(cs, p) ==
    {n \in _get_neighbors(p) : ~Truthy(collapsed(cs[n]))}

_get_collapsed_neighbors(cs, p) ==
    {n \in _get_neighbors(p) : Truthy(collapsed(cs[n]))}

\* tilemap.py:135-151, the loop over the directions for one uncollapsed
\* neighbour n and one collapsed neighbour m of it holding `tile`.
RECURSIVE _propagate_directions(_, _, _, _, _)
_propagate_directions(e, n, m, tile, idx) ==
    IF idx >= Len(DIRECTION_NAMES) THEN e
    ELSE
        LET d == DIRECTIONS[DIRECTION_NAMES[idx + 1]]
            direction == DIRECTION_NAMES[((idx + 2) % Len(DIRECTION_NAMES)) + 1]
            options == e.cells[n]
            narrowed == options \cap rules[tile.id][direction]
            e1 == [e EXCEPT !.cells[n] = narrowed]
            e2 == IF entropy(narrowed) = 1
                  THEN [e1 EXCEPT !.stack = Append(@, n),
                                  !.history = Put(@, <<e.gen, n>>, options)]
                  ELSE e1
        IN  IF m = <<(n[1] + d[1]) % width, (n[2] + d[2]) % height>>
            THEN _propagate_directions(e2, n, m, tile, idx + 1)
            ELSE _propagate_directions(e, n, m, tile, idx + 1)

\* The loop over the collapsed neighbours left after its first round.
_propagate_collapsed_once(e, n, M) ==
    IF M = {} THEN {e}
    ELSE {_propagate_directions(e, n, m, get_tile(e.cells[m]), 0) : m \in M}

\* tilemap.py:133-151, the loop over the collapsed neighbours M of n, a set
\* of Cell objects iterated in an order the program does not fix.
RECURSIVE _propagate_collapsed(_, _, _)
_propagate_collapsed(e, n, M) ==
    IF M = {} THEN {e}
    ELSE UNION {_propagate_collapsed(
                    _propagate_directions(e, n, m, get_tile(e.cells[m]), 0),
                    n, M \ {m}) : m \in M}

\* tilemap.py:131-151, the loop over the uncollapsed neighbours U, likewise
\* in any order; the collapsed neighbours of each are looked up when its
\* turn comes.
RECURSIVE _propagate_uncollapsed(_, _)
_propagate_uncollapsed(e, U) ==
    IF U = {} THEN {e}
    ELSE UNION {UNION {_propagate_uncollapsed(e1, U \ {n}) :
                       e1 \in _propagate_collapsed(
                                  e, n, _get_collapsed_neighbors(e.cells, n))} :
                n \in U}

\* _propagate as a stub that changes nothing.
_propagate_nothing(e, collapsed_cell) == {e}

\* TileMap._propagate: the engine states it can end in.
_propagate(e, collapsed_cell) ==
    _propagate_uncollapsed(e, _get_uncollapsed_neighbors(e.cells, collapsed_cell))

\* tilemap.py:108-127 with a try body that raises nothing: the pick, the
\* collapse, the propagation and the else branch, for the picked cell.
_observe_random_cell(e, cell) ==
    LET options == e.cells[cell]
    IN  UNION {{[e2 EXCEPT !.stack = Append(@, cell),
                           !.history = Put(@, <<e.gen, cell>>, options)] :
                e2 \in _propagate([e EXCEPT !.cells[cell] = o], cell)} :
               o \in collapse(options, <<>>)}

\* list.remove(x): drops the first occurrence of x.
RECURSIVE list_remove(_, _)
list_remove(s, x) ==
    IF s = <<>> THEN <<>>
    ELSE IF Head(s) = x THEN Tail(s) ELSE <<Head(s)>> \o list_remove(Tail(s), x)

InList(s, x) == \E i \in 1..Len(s) : s[i] = x

\* tilemap.py:167-170 for the neighbours N of the cell backtracked to.
RECURSIVE _backtrack_neighbors(_, _)
_backtrack_neighbors(e, N) ==
    IF N = {} THEN e
    ELSE LET neighbor == CHOOSE n \in N : TRUE
             e1 == [e EXCEPT !.cells[neighbor] = tiles]
             e2 == IF InList(e1.stack, neighbor)
                   THEN [e1 EXCEPT !.stack = list_remove(@, neighbor)]
                   ELSE e1
         IN  _backtrack_neighbors(e2, N \ {neighbor})

\* tilemap.py:179-183
_backtrack_restart(e) ==
    init_cells([e EXCEPT !.contradictions = 0, !.stack = <<>>])

\* TileMap._backtrack: the engine states it can end in.  The loop body runs
\* at most once: it ends in a break or in return False.
_backtrack(e, prev) ==
    IF e.stack = <<>> THEN {_backtrack_restart(e)}
    ELSE
        LET backtrack_cell == e.stack[Len(e.stack)]
            e1 == [e EXCEPT !.stack = SubSeq(@, 1, Len(@) - 1)]
            key == <<e.gen, backtrack_cell>>
            popped == IF key \in DOMAIN e.history THEN e.history[key] ELSE tiles
            e2 == [e1 EXCEPT !.cells[backtrack_cell] = popped \cap @,
                             !.history = Drop(@, key)]
            e3 == _backtrack_neighbors(e2, _get_neighbors(backtrack_cell))
        IN  IF backtrack_cell = prev THEN {_backtrack_restart(e1)}
            ELSE {IF e4.contradictions > Len(e4.stack)
                  THEN _backtrack_restart(e4) ELSE e4 :
                  e4 \in _propagate(e3, backtrack_cell)}

----------------------------------------------------------------------------
(* The catalogs and grids the engine is run on.                            *)

\* main.py:10-16
CatalogMain ==
    {Tile(0, <<0>>, <<0>>, <<0>>, <<0>>),
     Tile(1, <<1>>, <<1>>, <<0>>, <<1>>),
     Tile(2, <<1>>, <<1>>, <<1>>, <<0>>),
     Tile(3, <<0>>, <<1>>, <<1>>, <<1>>),
     Tile(4, <<1>>, <<0>>, <<1>>, <<1>>)}

\* main.py:11-13, the first three tiles of the catalog.
CatalogThree ==
    {Tile(0, <<0>>, <<0>>, <<0>>, <<0>>),
     Tile(1, <<1>>, <<1>>, <<0>>, <<1>>),
     Tile(2, <<1>>, <<1>>, <<1>>, <<0>>)}

\* Two self-compatible, mutually incompatible tiles.
CatalogPair ==
    {Tile(0, <<0>>, <<0>>, <<0>>, <<0>>),
     Tile(1, <<1>>, <<1>>, <<1>>, <<1>>)}

Configs ==
    {[width |-> 2, height |-> 2, tiles |-> CatalogPair],
     [width |-> 1, height |-> 2, tiles |-> CatalogPair],
     [width |-> 3, height |-> 1, tiles |-> CatalogThree],
     [width |-> 4, height |-> 1, tiles |-> CatalogThree],
     [width |-> 2, height |-> 2, tiles |-> CatalogMain]}

EngineConfigs ==
    {[width |-> 2, height |-> 2, tiles |-> CatalogPair],
     [width |-> 1, height |-> 2, tiles |-> CatalogPair],
     [width |-> 3, height |-> 1, tiles |-> CatalogThree]}

PairConfigs ==
    {[width |-> 1, height |-> 2, tiles |-> CatalogPair],
     [width |-> 3, height |-> 1, tiles |-> CatalogThree]}

\* How many times init_cells may rebuild the grid, and how many times the
\* exception handler may be entered between two rebuilds (the handler counts
\* its entries in `contradictions`, a rebuild sets the counter to 0).
MaxGen == 1

MaxContradictions == 1

----------------------------------------------------------------------------
(* The driver: show_map_window's update and reset callbacks.  A driver     *)
(* record d holds the engine fields and pc, drawn, last.                   *)

Driver ==
    [cells |-> cells, gen |-> gen, stack |-> stack, history |-> history,
     contradictions |-> contradictions, pc |-> pc, drawn |-> drawn, last |-> last]

SetDriver(d) ==
    /\ cells' = d.cells
    /\ gen' = d.gen
    /\ stack' = d.stack
    /\ history' = d.history
    /\ contradictions' = d.contradictions
    /\ pc' = d.pc
    /\ drawn' = d.drawn
    /\ last' = d.last

\* The engine fields of a driver record, and a driver record with them replaced.
EngineOf(d) ==
    [cells |-> d.cells, gen |-> d.gen, stack |-> d.stack, history |-> d.history,
     contradictions |-> d.contradictions]

WithEngine(d, e) ==
    [d EXCEPT !.cells = e.cells, !.gen = e.gen, !.stack = e.stack,
              !.history = e.history, !.contradictions = e.contradictions]

Call(op, arg, raised, restart) ==
    [op |-> op, arg |-> arg, raised |-> raised, restart |-> restart]

\* TileMap.__init__ and show_map_window up to mainloop(): the grid is full,
\* everything was drawn once and update is scheduled.
NewDriver(w, h, ts) ==
    [cells |-> new_cells(w, h, ts), gen |-> 0, stack |-> <<>>, history |-> <<>>,
     contradictions |-> 0, pc |-> "running",
     drawn |-> (0..(w - 1)) \X (0..(h - 1)),
     last |-> Call("init", <<>>, "none", FALSE)]

InitWith(C) ==
    /\ \E c \in C :
         /\ tiles = c.tiles
         /\ width = c.width
         /\ height = c.height
    /\ rules = build_rules(tiles)
    /\ cells = NewDriver(width, height, tiles).cells
    /\ gen = NewDriver(width, height, tiles).gen
    /\ stack = NewDriver(width, height, tiles).stack
    /\ history = NewDriver(width, height, tiles).history
    /\ contradictions = NewDriver(width, height, tiles).contradictions
    /\ pc = NewDriver(width, height, tiles).pc
    /\ drawn = NewDriver(width, height, tiles).drawn
    /\ last = NewDriver(width, height, tiles).last

Init == InitWith(Configs) /\ twin = <<>>

\* update() is entered from the Tk timer, or from reset().
InUpdate(d) == d.pc \in {"running", "reset"}

\* update, lines 245-252: a cell is observed and update is scheduled again.
update_step(d) ==
    LET cs == _get_cells_with_minimum_entropy(d.cells)
    IN  UNION {{[WithEngine(d, e) EXCEPT !.pc = "running", !.drawn = cs,
                     !.last = Call("update", cell, "none", FALSE)] :
                e \in _observe_random_cell(EngineOf(d), cell)} :
               cell \in {c \in choice(cs) : collapse_raises(d.cells[c], <<>>) = "none"}}

\* update, lines 245-246: Cell.collapse raises IndexError, which no handler
\* catches: the callback ends there, nothing is drawn or scheduled.
update_raise(d) ==
    LET cs == _get_cells_with_minimum_entropy(d.cells)
    IN  {[d EXCEPT !.pc = "crashed",
              !.last = Call("update", cell, collapse_raises(d.cells[cell], <<>>), FALSE)] :
         cell \in {c \in choice(cs) : collapse_raises(d.cells[c], <<>>) # "none"}}

\* update, lines 247-255: no cell is left to observe.
update_finish(d) ==
    IF _get_cells_with_minimum_entropy(d.cells) = {}
    THEN {[d EXCEPT !.pc = "finished", !.drawn = DOMAIN d.cells,
               !.last = Call("update", <<>>, "none", FALSE)]}
    ELSE {}

UpdateStep ==
    /\ InUpdate(Driver)
    /\ \E d \in update_step(Driver) : SetDriver(d)
    /\ UNCHANGED <<tiles, width, height, rules, twin>>

UpdateRaise ==
    /\ InUpdate(Driver)
    /\ \E d \in update_raise(Driver) : SetDriver(d)
    /\ UNCHANGED <<tiles, width, height, rules, twin>>

UpdateFinish ==
    /\ InUpdate(Driver)
    /\ \E d \in update_finish(Driver) : SetDriver(d)
    /\ UNCHANGED <<tiles, width, height, rules, twin>>

\* reset(event), lines 225-227; line 228 then calls update().
reset(d) ==
    [WithEngine(d, init_cells([EngineOf(d) EXCEPT !.contradictions = 0,
                                                  !.stack = <<>>]))
        EXCEPT !.pc = "reset", !.last = Call("reset", <<>>, "none", TRUE)]

Reset ==
    /\ pc \in {"running", "finished", "crashed"}
    /\ gen < MaxGen
    /\ SetDriver(reset(Driver))
    /\ UNCHANGED <<tiles, width, height, rules, twin>>

Next == UpdateStep \/ UpdateRaise \/ UpdateFinish \/ Reset

Spec == Init /\ [][Next]_vars

----------------------------------------------------------------------------
(* The handler of NoSolutionException, tilemap.py:113-122, is the only way *)
(* into _backtrack.  Nothing in the sources raises that exception, so Spec *)
(* never gets there; SpecEngine takes the handler as one more entry of the *)
(* engine, entered from any point of the try body where a raise could sit: *)
(* before the collapse, after it, or after the propagation.                *)

_observe_raise_points(e, cell) ==
    LET after_collapse == {[e EXCEPT !.cells[cell] = o] :
                           o \in collapse(e.cells[cell], <<>>)}
    IN  {e} \cup after_collapse
            \cup UNION {_propagate(e1, cell) : e1 \in after_collapse}

\* tilemap.py:113-122, then back in update: draw and schedule.
update_except(d) ==
    LET cs == _get_cells_with_minimum_entropy(d.cells)
    IN  UNION {UNION {{[WithEngine(d, e1) EXCEPT !.pc = "running", !.drawn = cs,
                            !.last = Call("except", cell, "none", e1.gen # d.gen)] :
                       e1 \in _backtrack([e EXCEPT !.contradictions = @ + 1], cell)} :
                      e \in _observe_raise_points(EngineOf(d), cell)} :
               cell \in choice(cs)}

UpdateExcept ==
    /\ InUpdate(Driver)
    /\ contradictions < MaxContradictions
    /\ \E d \in update_except(Driver) : d.gen <= MaxGen /\ SetDriver(d)
    /\ UNCHANGED <<tiles, width, height, rules, twin>>

NextEngine == Next \/ UpdateExcept

InitEngine == InitWith(EngineConfigs) /\ twin = <<>>

SpecEngine == InitEngine /\ [][NextEngine]_vars

----------------------------------------------------------------------------
(* _backtrack called on the engine as it stands between two steps, the way *)
(* a caller holding the TileMap calls it, with any cell as `prev`.         *)

\* How long the stack may be for one more _backtrack call to be made.
MaxStack == 4

Backtrack ==
    /\ pc = "running"
    /\ Len(stack) <= MaxStack
    /\ \E prev \in DOMAIN cells :
         \E e \in _backtrack(EngineOf(Driver), prev) :
             /\ e.gen <= MaxGen
             /\ SetDriver([WithEngine(Driver, e) EXCEPT
                              !.last = Call("_backtrack", prev, "none", e.gen # gen)])
    /\ UNCHANGED <<tiles, width, height, rules, twin>>

NextBacktrack == UpdateStep \/ UpdateRaise \/ UpdateFinish \/ Backtrack

SpecBacktrack == InitEngine /\ [][NextBacktrack]_vars

----------------------------------------------------------------------------
(* Two TileMaps built from the same catalog and dimensions in one process  *)
(* (util.random() gives both the same seed), updated side by side.         *)

update(d) ==
    IF InUpdate(d) THEN update_step(d) \cup update_raise(d) \cup update_finish(d)
    ELSE {d}

PairUpdate ==
    /\ InUpdate(Driver) \/ InUpdate(twin)
    /\ \E d1 \in update(Driver), d2 \in update(twin) :
         /\ SetDriver(d1)
         /\ twin' = d2
    /\ UNCHANGED <<tiles, width, height, rules>>

InitPair == InitWith(PairConfigs) /\ twin = NewDriver(width, height, tiles)

SpecPair == InitPair /\ [][PairUpdate]_vars

----------------------------------------------------------------------------
(* The adjacency compiler on its own: a catalog is drawn, build_rules runs. *)

TileIds == {0, 1}

Edges == {<<0, 1>>, <<1, 0>>}

MaxTiles == 2

TileUniverse ==
    {Tile(i, n, e, s, w) : i \in TileIds, n \in Edges, e \in Edges, s \in Edges, w \in Edges}

\* The sets of at most k tiles.
RECURSIVE CatalogsUpTo(_)
CatalogsUpTo(k) ==
    IF k = 0 THEN {{}}
    ELSE {c \cup {t} : c \in CatalogsUpTo(k - 1), t \in TileUniverse}

RuleCatalogs == CatalogsUpTo(MaxTiles) \ {{}}

InitRules ==
    /\ tiles \in RuleCatalogs
    /\ rules = <<>>
    /\ pc = "catalog"
    /\ width = 0
    /\ height = 0
    /\ cells = <<>>
    /\ gen = 0
    /\ stack = <<>>
    /\ history = <<>>
    /\ contradictions = 0
    /\ drawn = {}
    /\ last = Call("init", <<>>, "none", FALSE)
    /\ twin = <<>>

\* TileMap.__init__, line 41
BuildRules ==
    /\ pc = "catalog"
    /\ rules' = build_rules(tiles)
    /\ pc' = "compiled"
    /\ last' = Call("build_rules", <<>>, "none", FALSE)
    /\ UNCHANGED <<tiles, width, height, cells, gen, stack, history,
                   contradictions, drawn, twin>>

SpecRules == InitRules /\ [][BuildRules]_vars

----------------------------------------------------------------------------
(* One Cell on its own: collapse is called with and without an override.   *)

TheCell == <<0, 0>>

InitCell ==
    /\ tiles = CatalogMain
    /\ rules = build_rules(tiles)
    /\ pc = "cell"
    /\ width = 1
    /\ height = 1
    /\ cells \in [{TheCell} -> SUBSET tiles]
    /\ gen = 0
    /\ stack = <<>>
    /\ history = <<>>
    /\ contradictions = 0
    /\ drawn = {}
    /\ last = Call("init", <<>>, "none", FALSE)
    /\ twin = <<>>

\* The values of the `options` parameter of Cell.collapse.
Overrides == {<<>>} \cup {<<S>> : S \in SUBSET tiles}

\* Cell.collapse returns.
CellCollapse ==
    /\ pc = "cell"
    /\ \E options \in Overrides :
         /\ collapse_raises(cells[TheCell], options) = "none"
         /\ \E o \in collapse(cells[TheCell], options) :
              cells' = [cells EXCEPT ![TheCell] = o]
         /\ last' = Call("collapse", options, "none", FALSE)
    /\ UNCHANGED <<tiles, width, height, rules, gen, stack, history,
                   contradictions, pc, drawn, twin>>

\* Cell.collapse raises.
CellCollapseRaise ==
    /\ pc = "cell"
    /\ \E options \in Overrides :
         /\ collapse_raises(cells[TheCell], options) # "none"
         /\ last' = Call("collapse", options,
                         collapse_raises(cells[TheCell], options), FALSE)
    /\ UNCHANGED <<tiles, width, height, rules, cells, gen, stack, history,
                   contradictions, pc, drawn, twin>>

NextCell == CellCollapse \/ CellCollapseRaise

SpecCell == InitCell /\ [][NextCell]_vars

----------------------------------------------------------------------------
(* One Tile constructed from any id and four edge strings.                 *)

MaxEdgeLen == 2

\* The strings over the symbols 0 and 1 of length at most k.
RECURSIVE EdgeStrings(_)
EdgeStrings(k) ==
    IF k = 0 THEN {<<>>}
    ELSE EdgeStrings(k - 1) \cup
         {Append(e, c) : e \in {x \in EdgeStrings(k - 1) : Len(x) = k - 1}, c \in {0, 1}}

InitTile ==
    /\ pc = "tile"
    /\ \E id \in TileIds, north \in EdgeStrings(MaxEdgeLen), east \in EdgeStrings(MaxEdgeLen),
          south \in EdgeStrings(MaxEdgeLen), west \in EdgeStrings(MaxEdgeLen) :
            last = Call("Tile", <<id, north, east, south, west>>, "none", FALSE)
    /\ tiles = {}
    /\ rules = <<>>
    /\ width = 0
    /\ height = 0
    /\ cells = <<>>
    /\ gen = 0
    /\ stack = <<>>
    /\ history = <<>>
    /\ contradictions = 0
    /\ drawn = {}
    /\ twin = <<>>

\* Tile.__init__ returns the tile.
TileInit ==
    /\ pc = "tile"
    /\ _init_edges_raises(last.arg[2], last.arg[3], last.arg[4], last.arg[5]) = "none"
    /\ tiles' = {Tile(last.arg[1], last.arg[2], last.arg[3], last.arg[4], last.arg[5])}
    /\ pc' = "built"
    /\ UNCHANGED <<width, height, rules, cells, gen, stack, history,
                   contradictions, drawn, last, twin>>

\* Tile.__init__ raises out of _init_edges: no Tile object comes out.
TileInitRaise ==
    /\ pc = "tile"
    /\ _init_edges_raises(last.arg[2], last.arg[3], last.arg[4], last.arg[5]) # "none"
    /\ last' = [last EXCEPT !.raised =
                   _init_edges_raises(last.arg[2], last.arg[3], last.arg[4], last.arg[5])]
    /\ pc' = "failed"
    /\ UNCHANGED <<tiles, width, height, rules, cells, gen, stack, history,
                   contradictions, drawn, twin>>

NextTile == TileInit \/ TileInitRaise

SpecTile == InitTile /\ [][NextTile]_vars

----------------------------------------------------------------------------
(* The driver left to run, with no click on the canvas: window.after(       *)
(* FRAME_DELAY, update) keeps calling update for as long as the last call   *)
(* asked for it, so an update that is due is eventually run.                *)

Update == UpdateStep \/ UpdateRaise \/ UpdateFinish

InitScenario == InitWith(Configs) /\ twin = <<>>

SpecScenario == InitScenario /\ [][Update]_vars /\ WF_vars(Update)

----------------------------------------------------------------------------
(* Properties.                                                             *)

DirectionSet == {DIRECTION_NAMES[i] : i \in DOMAIN DIRECTION_NAMES}

Opposite(d) ==
    CASE d = "north" -> "south"
      [] d = "south" -> "north"
      [] d = "east" -> "west"
      [] d = "west" -> "east"

DirIndex(d) == CHOOSE i \in 0..3 : DIRECTION_NAMES[i + 1] = d

\* The position next to p in direction d, wrapping at the borders.
Adjacent(p, d) ==
    <<(p[1] + DIRECTIONS[d][1]) % width, (p[2] + DIRECTIONS[d][2]) % height>>

\* The edge of a facing d, read backwards from b's side, is b's facing edge.
EdgesMatch(a, b, d) == a.edges[d] = Reverse(b.edges[Opposite(d)])

Solved == pc = "finished"

\* C1: when the driver reports the grid solved, every two different cells
\* that are adjacent (wrapping at the borders) hold tiles whose facing edges
\* match.
C1_TerminalCorrectness ==
    Solved =>
        \A p \in Coords, d \in DirectionSet :
            Adjacent(p, d) # p =>
                \A a \in cells[p], b \in cells[Adjacent(p, d)] : EdgesMatch(a, b, d)

\* Some cell that had options before the step has none after it.
EmptiedByStep ==
    \E p \in DOMAIN cells : p \in DOMAIN cells' /\ cells[p] # {} /\ cells'[p] = {}

\* C2: a step whose propagation leaves some cell without options is a
\* contradiction: that same step goes through the contradiction handler,
\* which counts the failure and backtracks or restarts.
C2_ContradictionHandledInStep ==
    [][EmptiedByStep =>
           /\ last'.op = "except"
           /\ last'.restart \/ contradictions' = contradictions + 1]_vars

\* The driver is between two steps: the grid is what an observer sees.
BetweenSteps == pc \in {"running", "finished", "crashed"}

\* C3: between steps no cell is without options.
C3_NoInvalidCellBetweenSteps ==
    BetweenSteps => \A p \in DOMAIN cells : cells[p] # {}

\* The step kept the grid's cells (no restart) and gave no cell a tile it did
\* not have before.
OptionsShrink == \A p \in DOMAIN cells : cells'[p] \subseteq cells[p]

C5_FullResetClearsAll ==
    last.restart =>
        /\ \A p \in DOMAIN cells : cells[p] = tiles
        /\ contradictions = 0
        /\ stack = <<>>
        /\ DOMAIN history = {}

\* C6: two engines with the same catalog, dimensions and seed observe the
\* same cells, pick the same tiles and show the same grid after every step.
C6_SameSeedSameRun ==
    twin # <<>> =>
        /\ twin.cells = cells
        /\ twin.last = last
        /\ twin.drawn = drawn
        /\ twin.pc = pc

\* C7: for every catalog the compiled table lists tile b for tile a in
\* direction d exactly when a's edge facing d matches b's opposite edge.
C7_CompilerExact ==
    pc = "compiled" =>
        \A a \in tiles, b \in tiles, d \in DirectionSet :
            b \in rules[a.id][d] <=> EdgesMatch(a, b, d)

\* C8: compatibility is symmetric: a accepts b in direction d exactly when b
\* accepts a in the opposite direction, and likewise in the compiled table:
\* b is listed for a in direction d exactly when a is listed for b in the
\* opposite direction.
C8_CompatibleSymmetric ==
    /\ \A a \in tiles, b \in tiles, d \in DirectionSet :
           compatible(a, b, <<DirIndex(d), d>>)
               <=> compatible(b, a, <<DirIndex(Opposite(d)), Opposite(d)>>)
    /\ pc = "compiled" =>
           \A a \in tiles, b \in tiles, d \in DirectionSet :
               b \in rules[a.id][d] <=> a \in rules[b.id][Opposite(d)]

\* C9: every cell's options are a subset of the catalog at all times.
C9_OptionsWithinCatalog == \A p \in DOMAIN cells : cells[p] \subseteq tiles

\* A backtrack without restart has reset some cells and narrowed others.
C9_Witness ==
    /\ last.op = "except"
    /\ ~last.restart
    /\ \E p \in DOMAIN cells : cells[p] = tiles
    /\ \E p \in DOMAIN cells : Cardinality(cells[p]) = 1

\* The set collapse draws from is empty: the override when one is given, the
\* cell's options otherwise.
SourceEmpty(options, self_options) ==
    IF options = <<>> THEN self_options = {} ELSE options[1] = {}

\* C10: collapse with an empty source fails with the no-options contradiction
\* error and leaves the cell as it was; it never draws from another set.
C10_CollapseEmptySourceFails ==
    [][(last'.op = "collapse" /\ SourceEmpty(last'.arg, cells[TheCell])) =>
           (last'.raised = "NoSolutionException" /\ cells' = cells)]_vars

\* C11: collapse() without an override on a cell that holds exactly one tile
\* leaves the cell holding that same tile.
C11_CollapseIdempotentOnSingleton ==
    [][(last'.op = "collapse" /\ last'.arg = <<>> /\ entropy(cells[TheCell]) = 1) =>
           (last'.raised = "none" /\ cells' = cells)]_vars

\* collapse() without an override has returned and the cell holds one tile.
C11_Witness ==
    /\ pc = "cell"
    /\ last.op = "collapse"
    /\ last.arg = <<>>
    /\ last.raised = "none"
    /\ entropy(cells[TheCell]) = 1

\* C12: the cells update hands to draw after a step include every cell whose
\* options the step changed.
C12_ChangedCellsAreDrawn ==
    [][(last'.op = "update" /\ gen' = gen) =>
           \A p \in DOMAIN cells : cells'[p] # cells[p] => p \in drawn']_vars

\* The example of the two-tile catalog on the grid 1 wide and 2 high.
IsPairScenario == tiles = CatalogPair /\ width = 1 /\ height = 2

SameTileId == \A p \in DOMAIN cells, q \in DOMAIN cells :
                 {t.id : t \in cells[p]} = {t.id : t \in cells[q]}

\* C13: on the two-tile catalog (all edges "0", all edges "1") and the grid
\* of two cells, generation always goes on to reach Solved with both cells
\* holding one tile of the same id, whatever the random picks are.
C13_PairScenarioConverges ==
    IsPairScenario ~>
        (Solved /\ SameTileId /\ \A p \in DOMAIN cells : entropy(cells[p]) = 1)

\* The example has been run to Solved.
C13_Witness ==
    /\ IsPairScenario
    /\ Solved
    /\ SameTileId
    /\ \A p \in DOMAIN cells : entropy(cells[p]) = 1

\* The four edge strings handed to the constructor have one length.
EqualEdgeLengths ==
    Cardinality({Len(last.arg[i]) : i \in 2..5}) = 1

\* C14: constructing a tile succeeds exactly when its four edge strings have
\* the same length; otherwise it fails with ValueError and gives no tile.
C14_TileEdgeLengths ==
    pc \in {"built", "failed"} =>
        /\ pc = "built" <=> EqualEdgeLengths
        /\ pc = "built" =>
               /\ last.raised = "none"
               /\ \E t \in tiles :
                    /\ tiles = {t}
                    /\ t.id = last.arg[1]
                    /\ \A i \in 1..4 : t.edges[DIRECTION_NAMES[i]] = last.arg[i + 1]
        /\ pc = "failed" => (last.raised = "ValueError" /\ tiles = {})

\* A constructor call with edges of different lengths has failed.
C14_Witness ==
    /\ pc = "failed"
    /\ ~EqualEdgeLengths
    /\ last.raised = "ValueError"

\* Two distinct tiles of the catalog carry the same id.
DuplicateIds == \E a \in tiles, b \in tiles : a # b /\ a.id = b.id

\* C15: a catalog holding two distinct tiles with one id is rejected when the
\* catalog or its rule table is built: no rule table is ever compiled from it.
C15_DuplicateIdsRejected ==
    DuplicateIds => (pc # "compiled" /\ rules = <<>>)

\* C16: a cell's collapse state is a function of its options alone: None
\* exactly when they are empty, True exactly when they are one tile, False
\* otherwise; get_tile gives that one tile exactly when the state is True and
\* None otherwise.
C16_CollapseStateFromOptions ==
    \A p \in DOMAIN cells :
        /\ collapsed(cells[p]) \in {"None", "True", "False"}
        /\ collapsed(cells[p]) = "None" <=> cells[p] = {}
        /\ collapsed(cells[p]) = "True" <=> \E t \in tiles : cells[p] = {t}
        /\ collapsed(cells[p]) = "True" => cells[p] = {get_tile(cells[p])}
        /\ collapsed(cells[p]) # "True" => get_tile(cells[p]) = "None"

\* A cell collapsed through an override reads as collapsed and gives its tile.
C16_Witness ==
    /\ pc = "cell"
    /\ last.op = "collapse"
    /\ last.arg # <<>>
    /\ collapsed(cells[TheCell]) = "True"
    /\ get_tile(cells[TheCell]) \in tiles

\* C17: the cell a step observes has more than one option, and as few as any
\* cell with more than one option; no cell with no or one option is in the
\* pool the step picks from.
C17_ObservedCellIsMinimalOpen ==
    [][(last'.op = "update" /\ last'.arg # <<>>) =>
           /\ entropy(cells[last'.arg]) > 1
           /\ \A p \in DOMAIN cells :
                 entropy(cells[p]) > 1 => entropy(cells[last'.arg]) <= entropy(cells[p])
           /\ \A p \in _get_cells_with_minimum_entropy(cells) : entropy(cells[p]) > 1]_vars

\* A step has returned and the driver waits for the next one.
StepCompleted == pc \in {"running", "finished"} /\ last.op = "update"

\* C18: after every completed step, a cell that is not collapsed and lies in
\* direction d of a collapsed cell holds only tiles the rule table permits in
\* direction d of that cell's tile.
C18_PropagationTransitive ==
    StepCompleted =>
        \A c \in Coords, d \in DirectionSet :
            (collapsed(cells[c]) = "True" /\ collapsed(cells[Adjacent(c, d)]) # "True") =>
                cells[Adjacent(c, d)] \subseteq rules[get_tile(cells[c]).id][d]

\* The orders in which the cells of S can be visited.
VisitOrders(S) ==
    {f \in [1..Cardinality(S) -> S] : \A x \in S : \E i \in DOMAIN f : f[i] = x}

\* The cells _propagate(c) visits: c's neighbours that are not collapsed when
\* it is called (c itself is collapsed by then).
VisitedFrom(c) ==
    {n \in {Adjacent(c, d) : d \in DirectionSet} : n # c /\ collapsed(cells[n]) # "True"}

\* The options of cell m when the i-th cell of order f is visited by the step
\* that observed c: c holds its drawn tile, the cells visited before hold
\* what the step left them with, every other cell what it had.
AtVisit(c, f, i, m) ==
    IF m = c \/ (\E j \in 1..(i - 1) : f[j] = m) THEN cells'[m] ELSE cells[m]

\* C19: _propagate(c) for the cell c just collapsed leaves every neighbour n
\* of c that was not collapsed with its prior options cut down, for each cell
\* m collapsed when n is visited and adjacent to n in direction d, to
\* rules[tile(m).id][opposite(d)]; a cell adjacent in two directions through
\* the wrap counts in both.  The neighbours are visited in some order.
C19_LocalPropagationResult ==
    [][(last'.op = "update" /\ last'.arg # <<>> /\ last'.raised = "none" /\ gen' = gen) =>
           \E f \in VisitOrders(VisitedFrom(last'.arg)) :
               \A i \in DOMAIN f :
                   cells'[f[i]] =
                       {t \in cells[f[i]] :
                           \A d \in DirectionSet :
                               collapsed(AtVisit(last'.arg, f, i, Adjacent(f[i], d))) = "True" =>
                                   t \in rules[get_tile(AtVisit(last'.arg, f, i, Adjacent(f[i], d))).id][Opposite(d)]}]_vars

\* On a grid two cells wide, where a cell's east and west neighbour are one
\* cell, a step has cut a neighbour of the observed cell down.
C19_Witness ==
    /\ width = 2
    /\ pc = "running"
    /\ last.op = "update"
    /\ last.arg # <<>>
    /\ \E d \in {"east", "west"} :
         /\ cells[Adjacent(last.arg, d)] # tiles
         /\ cells[Adjacent(last.arg, d)] # {}

\* A _backtrack call that came back without rebuilding the grid.
LocalUndo == last'.op = "_backtrack" /\ ~last'.restart /\ gen' = gen

\* C20: when _backtrack pops a cell whose prior options were recorded, the
\* cell afterwards holds exactly the recorded set, and a call that does not
\* rebuild the grid changes the options of no other cell.
C20_BacktrackRestoresPriorState ==
    [][LocalUndo =>
           /\ <<gen, stack[Len(stack)]>> \in DOMAIN history =>
                  cells'[stack[Len(stack)]] = history[<<gen, stack[Len(stack)]>>]
           /\ \A p \in DOMAIN cells \ {stack[Len(stack)]} : cells'[p] = cells[p]]_vars

\* C21: _backtrack rebuilds the whole grid only when the stack is empty or
\* the contradictions counter exceeds the entries left on it; when the entry
\* it pops is the one of the cell it was called for, it undoes locally and
\* leaves the grid in place.
C21_RestartOnlyWhenExhausted ==
    [][last'.op = "_backtrack" =>
           /\ last'.restart => (stack = <<>> \/ contradictions > Len(stack) - 1)
           /\ (stack # <<>> /\ stack[Len(stack)] = last'.arg) => ~last'.restart]_vars

\* A step that observed a cell and came back, on the same grid.
ObservedStep ==
    last'.op = "update" /\ last'.arg # <<>> /\ last'.raised = "none" /\ gen' = gen

\* C22: every cell other than the observed one whose options a step's
\* propagation changed has, after the step, a history entry holding the
\* options it had before the propagation, however many options it is left
\* with.
C22_PropagationChangesRecorded ==
    [][ObservedStep =>
           \A p \in DOMAIN cells \ {last'.arg} :
               cells'[p] # cells[p] =>
                   /\ <<gen, p>> \in DOMAIN history'
                   /\ history'[<<gen, p>>] = cells[p]]_vars

\* C23: within one step the entry of the observed cell is put on the stack
\* before the entries of the cells its propagation changed: it is the first
\* of the entries the step adds.
C23_ObservedCellRecordedFirst ==
    [][ObservedStep =>
           /\ Len(stack') > Len(stack)
           /\ SubSeq(stack', 1, Len(stack)) = stack
           /\ stack'[Len(stack) + 1] = last'.arg]_vars

\* C24: the neighbours of a cell are exactly the cells north, east, south
\* and west of it, wrapping at the borders; on a grid at least two cells wide
\* and high a cell is not among its own neighbours.
C24_NeighborsAreTheFourAdjacent ==
    \A p \in DOMAIN cells :
        /\ _get_neighbors(p) = {Adjacent(p, d) : d \in DirectionSet}
        /\ (width >= 2 /\ height >= 2) => p \notin _get_neighbors(p)

\* Every cell holds exactly one tile.
AllCollapsed == \A p \in DOMAIN cells : entropy(cells[p]) = 1

CollapsedCount(cs) == Cardinality({p \in DOMAIN cs : entropy(cs[p]) = 1})

\* C26: a step that observes a cell and leaves no cell empty puts more cells
\* at exactly one tile than there were, and update never ends in an
\* exception nobody handles: the driver can always step or finish.
C26_Progress ==
    [][last'.op = "update" =>
           /\ last'.raised = "none"
           /\ pc' # "crashed"
           /\ (last'.arg # <<>> /\ gen' = gen /\ \A p \in DOMAIN cells' : cells'[p] # {}) =>
                  CollapsedCount(cells') > CollapsedCount(cells)]_vars

\* C27: no cell is on the stack twice, and every cell on the stack holds one
\* tile and has a recorded prior set that strictly contains it.
C27_StackEntriesDistinctAndRecorded ==
    /\ \A i \in DOMAIN stack, j \in DOMAIN stack : i # j => stack[i] # stack[j]
    /\ \A i \in DOMAIN stack :
          /\ <<gen, stack[i]>> \in DOMAIN history
          /\ entropy(cells[stack[i]]) = 1
          /\ cells[stack[i]] \subseteq history[<<gen, stack[i]>>]
          /\ cells[stack[i]] # history[<<gen, stack[i]>>]

====
